---------------------------- MODULE Spec2Model ----------------------------
(***************************************************************************)
(* Session persistence and recovery of the V7 monitor front-end            *)
(* (src/utils/auth.py, src/utils/api_client.py, src/app.py).               *)
(*                                                                         *)
(* One server process serves several Streamlit sessions.  Each session has *)
(* its own st.session_state and talks to its own browser; the browser      *)
(* holds the persisted credential in localStorage and in a cookie.  The    *)
(* server schedules browser-side reads/writes through components; the      *)
(* browser executes them on its own schedule (pending).  The module-level  *)
(* CookieManager is one object shared by every session of the process.     *)
(*                                                                         *)
(* A step is one whole handler: a render pass (main), a login click, a     *)
(* logout click, an API request, a token refresh, a page load, the browser *)
(* executing a scheduled op, a stored value being cut short or altered,    *)
(* the page's visibility listener at work, or time passing.                *)
(***************************************************************************)
EXTENDS Naturals, Sequences, FiniteSets

(***************************************************************************)
(* Bounds of the model.                                                    *)
(***************************************************************************)
\* Scheduled operations that may be outstanding per browser and storage tier.
MaxPending == 1
\* Days that may pass.
MaxNow == 1

(***************************************************************************)
(* Program constants.                                                      *)
(***************************************************************************)
MAX_RESTORE_ATTEMPTS == 2
COOKIE_EXPIRY_DAYS == 7

(***************************************************************************)
(* Universe.                                                               *)
(***************************************************************************)
Sessions == {"s1", "s2"}
Browsers == {"b1", "b2"}
Users == {"a", "b"}

\* Emails with characters that JSON or a JavaScript string literal escape:
\* an apostrophe, a double quote (quoted local part), a backslash.
EmailApos == "o'q"
EmailQuote == "q\"q"
EmailBackslash == "q\\q"
Emails == Users \cup {EmailApos, EmailQuote, EmailBackslash}

\* The browser a server session is connected to.
BrowserOf(s) == IF s = "s1" THEN "b1" ELSE "b2"

\* The accounts used at each session's browser when two sessions share the
\* process: one person signs in at s1, the visitor at s2 has no account, so
\* nothing that s2's browser ever stores is a credential.
Accounts(s) == IF s = "s1" THEN {"a"} ELSE {}

None == "None"

\* The Gateway's answers (black box): 200, 4xx, 5xx, Timeout,
\* ConnectionError.
HttpOutcomes == {"ok", "rejected", "server_error", "timeout", "connerr"}

\* How the caller sees the Gateway's answer: requests.exceptions.Timeout
\* and ConnectionError are handled alike, as "unreachable".
GwClass(http) == IF http \in {"timeout", "connerr"} THEN "unreachable" ELSE http

\* data["refresh_token"] of a successful login of user u.
RefreshTokenOf(u) == "rt_" \o u
OwnerOf(rt) == CHOOSE u \in Emails : RefreshTokenOf(u) = rt

\* data["access_token"] of a successful /auth/login of user u.
LoginAccessToken(u) == "at_login_" \o u
\* data["access_token"] of a successful /auth/refresh with refresh token rt.
RefreshAccessToken(rt) == "at_refresh_" \o OwnerOf(rt)

(***************************************************************************)
(* State.                                                                  *)
(***************************************************************************)
VARIABLES
    session_state,    \* st.session_state of each session
    localStorage,     \* browser: localStorage['v7_auth_data']
    cookie,           \* browser: cookie 'v7_auth'
    pending,          \* browser ops scheduled by the server, not yet executed
    cookie_manager,   \* the module-level CookieManager singleton
    now,              \* the date, in days (datetime.now())
    rejected,         \* observation: refresh tokens the Gateway has rejected
    restore_calls,    \* observation: Gateway calls try_restore_session made for
                      \* each session since its page load or logout
    window,           \* browser: the page's visibility listener, its reset
                      \* timer and sessionStorage['v7_reload_count']
    ev                \* observation: the last handler that ran, and its outcome

vars == <<session_state, localStorage, cookie, pending, cookie_manager, now,
          rejected, restore_calls, window, ev>>

(***************************************************************************)
(* The stored record (auth_data) and its validation.                       *)
(***************************************************************************)
\* sha256(email:refresh_token)[:16], as the pair it is computed from.
compute_checksum(email, refresh_token) == <<email, refresh_token>>

\* An empty storage slot / a read that returned nothing.
NoRecord == [email |-> None, refresh_token |-> None,
             checksum |-> <<None, None>>, expires_at |-> 0]

\* (faulty variant: the checksum also covers the date of saving)
AuthData_DatedChecksum(email, refresh_token) ==
    [email |-> email, refresh_token |-> refresh_token,
     checksum |-> <<email, refresh_token, now>>,
     expires_at |-> now + COOKIE_EXPIRY_DAYS]

\* auth_data built by save_auth_dual (saved_at, which nothing reads, left
\* out): it expires COOKIE_EXPIRY_DAYS after it is saved.
AuthData(email, refresh_token) ==
    [email |-> email, refresh_token |-> refresh_token,
     checksum |-> compute_checksum(email, refresh_token),
     expires_at |-> now + COOKIE_EXPIRY_DAYS]

\* The checksum of a record that has no "checksum" key.
NoChecksum == <<"absent", "absent">>

\* The checks both loaders apply to what the browser returned: a value at
\* all, both fields, the checksum if the record has one, the expiry (every
\* record of this model has an expires_at).  The result is the record or
\* NoRecord (Python None).
ValidateAuthData(result) ==
    IF result = NoRecord THEN NoRecord
    ELSE IF result.email = None \/ result.refresh_token = None THEN NoRecord
    ELSE IF /\ result.checksum # NoChecksum
            /\ result.checksum # compute_checksum(result.email, result.refresh_token)
         THEN NoRecord
    ELSE IF now > result.expires_at THEN NoRecord
    ELSE result

(***************************************************************************)
(* The text of the record on its way into localStorage: json.dumps, the   *)
(* escaping for the JavaScript literal, the literal's value, json.loads.   *)
(* Texts are sequences of characters; only the email can hold characters   *)
(* that are escaped (refresh tokens, dates and the checksum cannot).       *)
(***************************************************************************)
\* The characters of an email.
Text(email) ==
    CASE email = "a" -> <<"a">>
      [] email = "b" -> <<"b">>
      [] email = EmailApos -> <<"o", "'", "q">>
      [] email = EmailQuote -> <<"q", "\"", "q">>
      [] email = EmailBackslash -> <<"q", "\\", "q">>
      [] OTHER -> <<>>

\* The email with these characters; "other" if it is none of Emails.
NameOf(text) ==
    IF \E e \in Emails : Text(e) = text
    THEN CHOOSE e \in Emails : Text(e) = text
    ELSE "other"

\* A text that could not be produced (syntax error, JSONDecodeError).
Fail == <<"FAIL">>
Cons(c, rest) == IF rest = Fail THEN Fail ELSE <<c>> \o rest

\* json.dumps of a string (its body): " and \ get a backslash.
RECURSIVE json_dumps(_)
json_dumps(s) ==
    IF s = <<>> THEN <<>>
    ELSE (IF Head(s) \in {"\"", "\\"} THEN <<"\\", Head(s)>> ELSE <<Head(s)>>)
         \o json_dumps(Tail(s))

\* auth_json.replace("'", "\\'"): every apostrophe gets a backslash.
RECURSIVE js_escape(_)
js_escape(s) ==
    IF s = <<>> THEN <<>>
    ELSE (IF Head(s) = "'" THEN <<"\\", "'">> ELSE <<Head(s)>>)
         \o js_escape(Tail(s))

\* The value of the JavaScript literal '...' in js_code: a backslash is
\* dropped and the character after it taken as it is; a bare apostrophe
\* ends the literal early (syntax error).
RECURSIVE js_string_value(_)
js_string_value(s) ==
    IF s = <<>> THEN <<>>
    ELSE IF Head(s) = "\\"
         THEN IF Len(s) = 1 THEN Fail
              ELSE Cons(s[2], js_string_value(Tail(Tail(s))))
    ELSE IF Head(s) = "'" THEN Fail
    ELSE Cons(Head(s), js_string_value(Tail(s)))

\* json.loads of a string body: \" and \\ are unescaped, a bare " ends the
\* string early and any other escape is invalid (JSONDecodeError).
RECURSIVE json_loads(_)
json_loads(s) ==
    IF s = <<>> THEN <<>>
    ELSE IF Head(s) = "\\"
         THEN IF Len(s) = 1 THEN Fail
              ELSE IF s[2] \in {"\"", "\\"}
                   THEN Cons(s[2], json_loads(Tail(Tail(s))))
                   ELSE Fail
    ELSE IF Head(s) = "\"" THEN Fail
    ELSE Cons(Head(s), json_loads(Tail(s)))

\* The email text localStorage holds after the browser ran
\* localStorage.setItem('v7_auth_data', '<escaped_json>').
setItem_text(email) == js_string_value(js_escape(json_dumps(Text(email))))

(***************************************************************************)
(* Session state and the initial state.                                    *)
(***************************************************************************)
\* The values init_session gives a fresh st.session_state.  The key
\* auth_restore_done is read by main() and written nowhere: it is absent.
SessionDefaults ==
    [user_token |-> None,
     user_email |-> None,
     refresh_token |-> None,
     user_id |-> None,
     username |-> None,
     remember_me |-> FALSE,
     cookie_restore_attempts |-> 0,
     cookie_restore_done |-> FALSE,
     visibility_listener_injected |-> FALSE,
     auth_restore_done |-> FALSE]

is_authenticated(ss) == ss.user_token # None

(***************************************************************************)
(* Requests to the Gateway: method, path and query string of the URL, and  *)
(* the credential carried in the JSON body.                                *)
(***************************************************************************)
NoRequest == [method |-> "none", path |-> "none", query |-> None, body |-> None]

\* (faulty variant: the refresh token travels in the query string)
refresh_request_InQuery(refresh_token) ==
    [method |-> "POST", path |-> "/auth/refresh", query |-> refresh_token,
     body |-> None]

\* requests.post(f"{api_base_url}/auth/refresh", json={"refresh_token": ...}),
\* as try_restore_session and refresh_access_token issue it.
refresh_request(refresh_token) ==
    [method |-> "POST", path |-> "/auth/refresh", query |-> None,
     body |-> refresh_token]

\* requests.post(f"{api_base_url}/auth/login", json={"email", "password"}):
\* no stored credential in it.
login_request(email) ==
    [method |-> "POST", path |-> "/auth/login", query |-> None, body |-> None]

\* requests.post(f"{api_base_url}/auth/logout", json={"refresh_token": ...}).
logout_request(refresh_token) ==
    [method |-> "POST", path |-> "/auth/logout", query |-> None,
     body |-> refresh_token]

\* What one APIClient._request call did: the Authorization header of each
\* requests.request it sent (None: no header), the number of /auth/refresh
\* calls, and the response it returned ("raised": it re-raised).
NoApi == [sends |-> <<>>, refreshes |-> 0, response |-> "none"]

NoEvent == [op |-> "init", s |-> "s1", reads |-> 0, read |-> NoRecord,
            gw |-> "none", ret |-> FALSE, page |-> "none", req |-> NoRequest,
            msg |-> "none", body |-> "none", api |-> NoApi,
            failed |-> {}, js |-> NoRecord]

Tiers == {"ls", "ck"}

\* A page that has not run the visibility script: no listener, no timer, the
\* tab visible, no 'v7_reload_count' in sessionStorage (read as 0).  `reloads`
\* observes the reloads the listener triggered since resetReloadCount last ran.
NoWindow == [listener |-> FALSE, timer |-> FALSE, hidden |-> FALSE,
             reload_count |-> 0, reloads |-> 0]

Init ==
    /\ session_state = [s \in Sessions |-> SessionDefaults]
    /\ localStorage = [b \in Browsers |-> NoRecord]
    /\ cookie = [b \in Browsers |-> NoRecord]
    /\ pending = [b \in Browsers |-> [t \in Tiers |-> <<>>]]
    /\ cookie_manager = [made |-> FALSE, cookies |-> NoRecord]
    /\ now = 0
    /\ rejected = {}
    /\ restore_calls = [s \in Sessions |-> 0]
    /\ window = [b \in Browsers |-> NoWindow]
    /\ ev = NoEvent


(***************************************************************************)
(* Browser storage bridge.                                                 *)
(***************************************************************************)
\* The operations scheduled for one browser, per tier: "set" stores val,
\* "remove" empties the tier.
Op(kind, val) == [kind |-> kind, val |-> val]
NoOps == [t \in Tiers |-> <<>>]

\* What a scheduled operation leaves in its tier once the browser runs it:
\* localStorage.setItem / cookie set, localStorage.removeItem / cookie
\* delete.
ApplyOp(op) == IF op.kind = "set" THEN op.val ELSE NoRecord

\* The scheduled operations of a browser with more appended.
Schedule(pend, ops) == [t \in Tiers |-> pend[t] \o ops[t]]
Fits(pend, ops) == \A t \in Tiers : Len(pend[t]) + Len(ops[t]) <= MaxPending

\* _get_cookie_manager: the singleton is built on first use, by whichever
\* session gets there first, and then returned to every session.  At
\* construction the CookieManager asks the calling session's browser for
\* its cookies; initial is what it got (nothing yet, or that browser's
\* cookie).
get_cookie_manager(cm, initial) ==
    IF cm.made THEN cm ELSE [made |-> TRUE, cookies |-> initial]

\* A stored value cut short (fewer than 20 characters are left of it): no
\* JSON object with both "email" and "refresh_token" is that short, so
\* json.loads raises or the field check fails.
Truncated == [NoRecord EXCEPT !.checksum = <<"truncated", "truncated">>]

\* What stands for streamlit_js_eval raising (or not being importable)
\* instead of returning.
JsRaised == [NoRecord EXCEPT !.checksum = <<"raised", "raised">>]

\* (faulty variant: what the browser returned is used unchecked)
load_auth_from_localstorage_Unchecked(result) ==
    IF result = JsRaised THEN NoRecord ELSE result

\* load_auth_from_localstorage: result is what streamlit_js_eval returned
\* for localStorage.getItem (nothing yet, or the stored value); every
\* exception is caught and answered with None.
load_auth_from_localstorage(result) ==
    IF result = JsRaised THEN NoRecord ELSE ValidateAuthData(result)

\* load_auth_cookie: cookie_manager.get(COOKIE_NAME) answers from the
\* manager's own copy of the cookies.  raised: the CookieManager could not
\* be built or its get raised; that too is answered with None.
load_auth_cookie(cm, raised) ==
    IF raised THEN NoRecord ELSE ValidateAuthData(cm.cookies)

\* cookie_manager.delete(COOKIE_NAME), as both clear functions call it:
\* the delete is scheduled in the calling session's browser; the manager's
\* copy is dropped when the component reports back (did_delete).
CookieManagerDelete(cm, did_delete) ==
    IF did_delete THEN [cm EXCEPT !.cookies = NoRecord] ELSE cm

\* cookie_manager.set(COOKIE_NAME, auth_json, expires_at).
CookieManagerSet(cm, val, did_add) ==
    IF did_add THEN [cm EXCEPT !.cookies = val] ELSE cm

\* A stored value json.loads cannot parse.
Garbled == [NoRecord EXCEPT !.checksum = <<"garbled", "garbled">>]

\* What json.loads (load_auth_from_localstorage) makes of the text that
\* setItem stored for auth_data: the record with the email as it reads
\* back, or Garbled.
LocalStorageValue(auth_data) ==
    LET stored == setItem_text(auth_data.email)
        email == IF stored = Fail THEN Fail ELSE json_loads(stored)
    IN IF email = Fail THEN Garbled
       ELSE [auth_data EXCEPT !.email = NameOf(email)]

\* _sync_clear_auth_storage: the operations it schedules.
sync_clear_auth_storage_ops ==
    [NoOps EXCEPT !["ck"] = << Op("remove", NoRecord) >>]

\* (faulty variant: a failure of the localStorage removal ends the clearing)
clear_auth_storage_ops_StopsAtFailure(raised) ==
    [t \in Tiers |-> IF "ls" \in raised \/ t \in raised THEN <<>>
                     ELSE << Op("remove", NoRecord) >>]

\* clear_auth_storage: the operations it schedules.  raised: the tiers
\* whose removal raised (streamlit_js_eval or the CookieManager failing);
\* each removal is in a try/except of its own.
clear_auth_storage_ops(raised) ==
    [t \in Tiers |-> IF t \in raised THEN <<>> ELSE << Op("remove", NoRecord) >>]

\* save_auth_dual: the operations it schedules.
save_auth_dual_ops(email, refresh_token) ==
    [ls |-> << Op("set", LocalStorageValue(AuthData(email, refresh_token))) >>,
     ck |-> << Op("set", AuthData(email, refresh_token)) >>]

(***************************************************************************)
(* try_restore_session.                                                    *)
(***************************************************************************)
\* (faulty variant: the email of the stored record is not put back)
RestoreSuccess_NoEmail(ss, auth_data) ==
    [ss EXCEPT !.user_token = RefreshAccessToken(auth_data.refresh_token),
               !.refresh_token = auth_data.refresh_token,
               !.remember_me = TRUE,
               !.cookie_restore_done = TRUE]

\* Session state after a successful exchange of the stored refresh token.
RestoreSuccess(ss, auth_data) ==
    [ss EXCEPT !.user_token = RefreshAccessToken(auth_data.refresh_token),
               !.refresh_token = auth_data.refresh_token,
               !.user_email = auth_data.email,
               !.remember_me = TRUE,
               !.cookie_restore_done = TRUE]

\* (faulty variant: the restoration is left open, to be retried)
RestoreGiveUp_Retry(ss) == ss

\* Session state after any other end of the restoration.
RestoreGiveUp(ss) == [ss EXCEPT !.cookie_restore_done = TRUE]

\* The result of try_restore_session, as a record:
\*   ss       the session's st.session_state afterwards
\*   cm       the CookieManager singleton afterwards
\*   ops      browser operations scheduled
\*   reads    storage tiers read (0, 1: localStorage, 2: and the cookie)
\*   read     the record the storage read produced (NoRecord: none)
\*   gw       the Gateway's answer, "none" when no call was made
\*   ret      the return value
\*   req      the request sent to the Gateway, if any
Result(ss, cm, ops, reads, read, gw, ret) ==
    [ss |-> ss, cm |-> cm, ops |-> ops, reads |-> reads, read |-> read,
     gw |-> gw, ret |-> ret,
     req |-> IF gw = "none" THEN NoRequest
             ELSE refresh_request(read.refresh_token)]

\* (faulty variant: the early return is reported as a Gateway exchange)
RestoreSkipped_Asks(ss, cm, ret) == Result(ss, cm, NoOps, 0, NoRecord, "ok", ret)

\* Lines 507-524: the returns before any storage is read.
RestoreSkipped(ss, cm, ret) == Result(ss, cm, NoOps, 0, NoRecord, "none", ret)

\* (faulty variant: the pass that read nothing leaves restoration open)
RestoreNothingStored_NotDone(ss, cm) ==
    Result(ss, cm, NoOps, 2, NoRecord, "none", FALSE)

\* Lines 543-547: neither tier gave a record.
RestoreNothingStored(ss, cm) ==
    Result(RestoreGiveUp(ss), cm, NoOps, 2, NoRecord, "none", FALSE)

\* (faulty variant: only the access token is put back)
RestoreAccepted_TokenOnly(ss, cm, reads, auth_data) ==
    Result([ss EXCEPT !.user_token = RefreshAccessToken(auth_data.refresh_token),
                      !.cookie_restore_done = TRUE],
           cm, NoOps, reads, auth_data, "ok", TRUE)

\* Lines 564-575: the Gateway answered 200.
RestoreAccepted(ss, cm, reads, auth_data) ==
    Result(RestoreSuccess(ss, auth_data), cm, NoOps, reads, auth_data, "ok", TRUE)

\* (faulty variant: a refused exchange is reported as a restored session)
RestoreRefused_ReportsSuccess(ss, cm, reads, auth_data, http, did_delete) ==
    Result(RestoreGiveUp(ss), CookieManagerDelete(cm, did_delete),
           sync_clear_auth_storage_ops, reads, auth_data, http, TRUE)

\* Lines 576-581: the Gateway answered with another status (4xx or 5xx);
\* _sync_clear_auth_storage deletes the cookie only.
RestoreRefused(ss, cm, reads, auth_data, http, did_delete) ==
    Result(RestoreGiveUp(ss), CookieManagerDelete(cm, did_delete),
           sync_clear_auth_storage_ops, reads, auth_data, http, FALSE)

\* (faulty variant: a failed connection clears like a refusal)
RestoreUnreachable_Clears(ss, cm, reads, auth_data, http) ==
    Result(RestoreGiveUp(ss), cm, sync_clear_auth_storage_ops, reads, auth_data,
           GwClass(http), FALSE)

\* Lines 583-594: requests.exceptions.Timeout, ConnectionError, or any
\* other exception.
RestoreUnreachable(ss, cm, reads, auth_data, http) ==
    Result(RestoreGiveUp(ss), cm, NoOps, reads, auth_data, GwClass(http), FALSE)

\* (faulty variant: lines 512-514 missing, a finished restoration runs again)
try_restore_session_IgnoresDone(ss, cm, js_result, cm_initial, http, did_delete, ck_raised) ==
    IF is_authenticated(ss) THEN RestoreSkipped(RestoreGiveUp(ss), cm, TRUE)
    ELSE
      LET attempts == ss.cookie_restore_attempts
          ss1 == [ss EXCEPT !.cookie_restore_attempts = attempts + 1]
      IN
      IF attempts >= MAX_RESTORE_ATTEMPTS
      THEN RestoreSkipped(RestoreGiveUp(ss1), cm, FALSE)
      ELSE
        LET from_ls == load_auth_from_localstorage(js_result)
            cm1 == IF from_ls = NoRecord /\ ~ck_raised
                   THEN get_cookie_manager(cm, cm_initial)
                   ELSE cm
            auth_data == IF from_ls # NoRecord THEN from_ls
                         ELSE load_auth_cookie(cm1, ck_raised)
            reads == IF from_ls # NoRecord THEN 1 ELSE 2
        IN
        IF auth_data = NoRecord THEN RestoreNothingStored(ss1, cm1)
        ELSE IF http = "ok" THEN RestoreAccepted(ss1, cm1, reads, auth_data)
        ELSE IF http \in {"rejected", "server_error"}
        THEN RestoreRefused(ss1, get_cookie_manager(cm1, cm_initial), reads,
                            auth_data, http, did_delete)
        ELSE RestoreUnreachable(ss1, cm1, reads, auth_data, http)

\* (faulty variant: lines 512-524 missing, neither the done flag nor the
\* attempt counter stops a pass)
try_restore_session_Unguarded(ss, cm, js_result, cm_initial, http, did_delete, ck_raised) ==
    IF is_authenticated(ss) THEN RestoreSkipped(RestoreGiveUp(ss), cm, TRUE)
    ELSE
      LET attempts == ss.cookie_restore_attempts
          ss1 == [ss EXCEPT !.cookie_restore_attempts = attempts + 1]
      IN
        LET from_ls == load_auth_from_localstorage(js_result)
            cm1 == IF from_ls = NoRecord /\ ~ck_raised
                   THEN get_cookie_manager(cm, cm_initial)
                   ELSE cm
            auth_data == IF from_ls # NoRecord THEN from_ls
                         ELSE load_auth_cookie(cm1, ck_raised)
            reads == IF from_ls # NoRecord THEN 1 ELSE 2
        IN
        IF auth_data = NoRecord THEN RestoreNothingStored(ss1, cm1)
        ELSE IF http = "ok" THEN RestoreAccepted(ss1, cm1, reads, auth_data)
        ELSE IF http \in {"rejected", "server_error"}
        THEN RestoreRefused(ss1, get_cookie_manager(cm1, cm_initial), reads,
                            auth_data, http, did_delete)
        ELSE RestoreUnreachable(ss1, cm1, reads, auth_data, http)

\* try_restore_session on session state ss with the CookieManager
\* singleton cm.  Inputs: js_result (what the localStorage read returned),
\* cm_initial (what a newly built CookieManager got), http (the Gateway's
\* answer, if asked), did_delete (whether the cookie delete reported back),
\* ck_raised (whether the cookie read failed).
try_restore_session(ss, cm, js_result, cm_initial, http, did_delete, ck_raised) ==
    IF is_authenticated(ss) THEN RestoreSkipped(RestoreGiveUp(ss), cm, TRUE)
    ELSE IF ss.cookie_restore_done THEN RestoreSkipped(ss, cm, FALSE)
    ELSE
      LET attempts == ss.cookie_restore_attempts
          ss1 == [ss EXCEPT !.cookie_restore_attempts = attempts + 1]
      IN
      IF attempts >= MAX_RESTORE_ATTEMPTS
      THEN RestoreSkipped(RestoreGiveUp(ss1), cm, FALSE)
      ELSE
        LET from_ls == load_auth_from_localstorage(js_result)
            cm1 == IF from_ls = NoRecord /\ ~ck_raised
                   THEN get_cookie_manager(cm, cm_initial)
                   ELSE cm
            auth_data == IF from_ls # NoRecord THEN from_ls
                         ELSE load_auth_cookie(cm1, ck_raised)
            reads == IF from_ls # NoRecord THEN 1 ELSE 2
        IN
        IF auth_data = NoRecord THEN RestoreNothingStored(ss1, cm1)
        ELSE IF http = "ok" THEN RestoreAccepted(ss1, cm1, reads, auth_data)
        ELSE IF http \in {"rejected", "server_error"}
        THEN RestoreRefused(ss1, get_cookie_manager(cm1, cm_initial), reads,
                            auth_data, http, did_delete)
        ELSE RestoreUnreachable(ss1, cm1, reads, auth_data, http)

(***************************************************************************)
(* main: one render pass.                                                  *)
(***************************************************************************)
\* The page main() shows for a session state, after try_restore_session.
PageShown(ss) ==
    IF ~is_authenticated(ss)
    THEN IF ~ss.auth_restore_done THEN "loading" ELSE "auth_page"
    ELSE "monitor"

\* inject_visibility_listener, called on the authenticated branch.
inject_visibility_listener(ss) ==
    [ss EXCEPT !.visibility_listener_injected = TRUE]

\* Lines 326-327 and 393: the call hands the script to the page
\* (components.html) only while the session's flag is not set.
InjectsScript(ss) == ~ss.visibility_listener_injected

\* const MAX_RELOADS = 2 of the script.
MAX_RELOADS == 2

\* The script when the page runs it: it returns if the page already has the
\* listener, else it marks the page, starts the timer that resets the reload
\* count and adds the visibilitychange listener.
ScriptRuns(w) ==
    IF w.listener THEN w
    ELSE [w EXCEPT !.listener = TRUE, !.timer = TRUE]

\* resetReloadCount, run by the timer: the sessionStorage key is removed.
resetReloadCount(w) ==
    [w EXCEPT !.timer = FALSE, !.reload_count = 0, !.reloads = 0]

\* (faulty variant: the listener reloads without looking at the count)
VisibilityChange_NoCap(w, long) ==
    IF long
    THEN [w |-> [w EXCEPT !.reload_count = @ + 1, !.reloads = @ + 1],
          reload |-> TRUE]
    ELSE [w |-> [w EXCEPT !.hidden = FALSE], reload |-> FALSE]

\* The visibilitychange listener when the tab becomes visible again, `long`
\* telling whether it was hidden for more than VISIBILITY_HIDDEN_THRESHOLD:
\* the new window state and whether window.location.reload() was called.
VisibilityChange(w, long) ==
    IF w.reload_count >= MAX_RELOADS
    THEN [w |-> [w EXCEPT !.hidden = FALSE], reload |-> FALSE]
    ELSE IF long
    THEN [w |-> [w EXCEPT !.reload_count = @ + 1, !.reloads = @ + 1],
          reload |-> TRUE]
    ELSE [w |-> [w EXCEPT !.hidden = FALSE], reload |-> FALSE]

\* The page after a (re)load: a new document, so no listener and no timer;
\* sessionStorage belongs to the tab and is kept.
Reloaded(w) == [w EXCEPT !.listener = FALSE, !.timer = FALSE, !.hidden = FALSE]

\* What a newly built CookieManager may get from the browser of session s.
CmInitials(s) ==
    IF cookie_manager.made THEN {NoRecord} ELSE {NoRecord, cookie[BrowserOf(s)]}

\* The inputs of a render pass of session s that its outcome depends on:
\* none when try_restore_session returns at once.
PassInputs(s) ==
    IF is_authenticated(session_state[s]) \/ session_state[s].cookie_restore_done
    THEN {[js_result |-> NoRecord, cm_initial |-> NoRecord,
           http |-> "ok", did_delete |-> FALSE, ck_raised |-> FALSE]}
    ELSE [js_result : {NoRecord, localStorage[BrowserOf(s)]},
          cm_initial : CmInitials(s),
          http : {"rejected", "server_error"},
          did_delete : BOOLEAN, ck_raised : {FALSE}]
         \cup [js_result : {NoRecord, localStorage[BrowserOf(s)]},
               cm_initial : CmInitials(s),
               http : HttpOutcomes \ {"rejected", "server_error"},
               did_delete : {FALSE}, ck_raised : {FALSE}]
         \* a failing localStorage read, with the cookie read working
         \cup [js_result : {JsRaised},
               cm_initial : CmInitials(s),
               http : {"ok", "rejected"},
               did_delete : {FALSE}, ck_raised : {FALSE}]
         \* a failing cookie read, after a localStorage read that gave nothing
         \cup [js_result : {NoRecord, JsRaised},
               cm_initial : {NoRecord},
               http : {"ok"},
               did_delete : {FALSE}, ck_raised : {TRUE}]

\* The tiers whose read failed in a pass that read `reads` tiers.
FailedTiers(reads, js_result, ck_raised) ==
    (IF reads >= 1 /\ js_result = JsRaised THEN {"ls"} ELSE {})
    \cup (IF reads = 2 /\ ck_raised THEN {"ck"} ELSE {})

RenderPass(s) ==
    \E i \in PassInputs(s) :
      LET r == try_restore_session(session_state[s], cookie_manager, i.js_result,
                                   i.cm_initial, i.http, i.did_delete,
                                   i.ck_raised)
          b == BrowserOf(s)
          ss2 == IF is_authenticated(r.ss)
                 THEN inject_visibility_listener(r.ss) ELSE r.ss
      IN
      /\ Fits(pending[b], r.ops)
      /\ session_state' = [session_state EXCEPT ![s] = ss2]
      /\ cookie_manager' = r.cm
      /\ pending' = [pending EXCEPT ![b] = Schedule(pending[b], r.ops)]
      /\ rejected' = IF r.gw = "rejected"
                     THEN rejected \cup {r.read.refresh_token} ELSE rejected
      /\ restore_calls' = IF r.gw = "none" THEN restore_calls
                          ELSE [restore_calls EXCEPT ![s] = @ + 1]
      /\ ev' = [op |-> "pass", s |-> s, reads |-> r.reads, read |-> r.read,
                gw |-> r.gw, ret |-> r.ret, page |-> PageShown(r.ss),
                req |-> r.req, msg |-> "none", body |-> "none", api |-> NoApi,
                failed |-> FailedTiers(r.reads, i.js_result, i.ck_raised),
                js |-> IF r.reads >= 1 THEN i.js_result ELSE NoRecord]
      \* the page runs the script handed over by components.html afterwards
      \* (ScriptRun)
      /\ UNCHANGED <<localStorage, cookie, now, window>>

(***************************************************************************)
(* login (the login button of the login form).                             *)
(***************************************************************************)
\* (faulty variant: the refresh token of the answer is not kept)
login_NoRefreshToken(ss, email, remember_me, http) ==
    IF http = "ok"
    THEN [ss EXCEPT !.user_token = LoginAccessToken(email),
                    !.user_email = email,
                    !.remember_me = remember_me,
                    !.cookie_restore_done = TRUE]
    ELSE ss

\* Session state after login() got the Gateway's answer http.
login(ss, email, remember_me, http) ==
    IF http = "ok"
    THEN [ss EXCEPT !.user_token = LoginAccessToken(email),
                    !.refresh_token = RefreshTokenOf(email),
                    !.user_email = email,
                    !.remember_me = remember_me,
                    !.cookie_restore_done = TRUE]
    ELSE ss

\* (faulty variant: every successful login is persisted)
login_saves_Always(remember_me, http) == http = "ok"

\* Whether login() calls save_auth_dual: on status 200, if remember_me.
login_saves(remember_me, http) == http = "ok" /\ remember_me

\* The messages login() returns (the source's texts are "登入成功", "登入失敗",
\* "連接超時，請稍後再試", "無法連接伺服器" and "登入失敗：" followed by the error).
MsgLoginOk == "login succeeded"
MsgLoginFailed == "login failed"
MsgTimeout == "connection timed out, try again later"
MsgConnErr == "cannot connect to the server"
MsgLoginError == "login failed: error"

\* What the Gateway's answer to a refused login carries: a JSON body with a
\* "detail" text, a JSON body without one, or a body that is not JSON.
ServerDetail == "detail text of the Gateway"
LoginBodies == {"detail", "no_detail", "not_json"}

\* (faulty variant: a timeout is answered like a refusal)
login_message_TimeoutAsRefusal(http, body) ==
    IF http = "ok" THEN MsgLoginOk
    ELSE IF http \in {"rejected", "server_error", "timeout"}
    THEN IF body = "detail" THEN ServerDetail
         ELSE IF body = "no_detail" THEN MsgLoginFailed
         ELSE MsgLoginError
    ELSE MsgConnErr

\* The "message" of the dictionary login() returns.
login_message(http, body) ==
    IF http = "ok" THEN MsgLoginOk
    ELSE IF http \in {"rejected", "server_error"}
    THEN IF body = "detail" THEN ServerDetail
         ELSE IF body = "no_detail" THEN MsgLoginFailed
         ELSE MsgLoginError
    ELSE IF http = "timeout" THEN MsgTimeout
    ELSE MsgConnErr

\* The inputs of a login click that its outcome depends on.
LoginInputs(s, accounts) ==
    [email : accounts, remember_me : {TRUE}, http : {"ok"},
     cm_initial : CmInitials(s), did_add : BOOLEAN, body : {"detail"}]
    \cup [email : accounts, remember_me : {FALSE}, http : {"ok"},
          cm_initial : {NoRecord}, did_add : {FALSE}, body : {"detail"}]
    \cup [email : accounts, remember_me : BOOLEAN,
          http : {"rejected", "server_error"},
          cm_initial : {NoRecord}, did_add : {FALSE}, body : LoginBodies]
    \cup [email : accounts, remember_me : BOOLEAN,
          http : {"timeout", "connerr"},
          cm_initial : {NoRecord}, did_add : {FALSE}, body : {"detail"}]

\* accounts: the emails that may be typed into the form.
Login(s, accounts) ==
    \E i \in LoginInputs(s, accounts) :
      LET email == i.email
          remember_me == i.remember_me
          http == i.http
          cm_initial == i.cm_initial
          did_add == i.did_add
          ss == session_state[s]
          b == BrowserOf(s)
          saves == login_saves(remember_me, http)
          ops == IF saves THEN save_auth_dual_ops(email, RefreshTokenOf(email))
                 ELSE NoOps
      IN
      \* login() is called from the login form, which is for a session whose
      \* restoration finished without a token (what main() shows on such a
      \* pass is PageShown)
      /\ ~is_authenticated(ss)
      /\ ss.cookie_restore_done
      /\ Fits(pending[b], ops)
      /\ session_state' = [session_state EXCEPT ![s] = login(ss, email, remember_me, http)]
      /\ pending' = [pending EXCEPT ![b] = Schedule(pending[b], ops)]
      /\ cookie_manager' =
            IF saves
            THEN CookieManagerSet(get_cookie_manager(cookie_manager, cm_initial),
                                  AuthData(email, RefreshTokenOf(email)), did_add)
            ELSE cookie_manager
      /\ rejected' = IF saves THEN rejected \ {RefreshTokenOf(email)} ELSE rejected
      /\ ev' = [NoEvent EXCEPT !.op = "login", !.s = s, !.gw = GwClass(http),
                                !.ret = (http = "ok"),
                                !.req = login_request(email),
                                !.msg = login_message(http, i.body),
                                !.body = IF http \in {"rejected", "server_error"}
                                         THEN i.body ELSE "none"]
      /\ UNCHANGED <<window, localStorage, cookie, now, restore_calls>>

(***************************************************************************)
(* logout (the logout button of the sidebar).                              *)
(***************************************************************************)
\* (faulty variant: a failed notification stops the logout)
logout_IfNotified(ss, http) ==
    IF http = "ok"
    THEN [SessionDefaults EXCEPT !.auth_restore_done = ss.auth_restore_done]
    ELSE ss

\* Session state after logout(), whatever the Gateway answered (http): the
\* notification is wrapped in try/except with pass.
logout(ss, http) ==
    [ss EXCEPT !.user_token = None,
               !.user_email = None,
               !.refresh_token = None,
               !.user_id = None,
               !.username = None,
               !.remember_me = FALSE,
               !.cookie_restore_attempts = 0,
               !.cookie_restore_done = FALSE,
               !.visibility_listener_injected = FALSE]

\* Whether logout() notifies the Gateway.
LogoutNotifies(ss) == ss.refresh_token # None

\* The inputs of a logout that its outcome depends on.
LogoutInputs(s) ==
    [http : HttpOutcomes, cm_initial : CmInitials(s), did_delete : BOOLEAN,
     raised : {{}}]
    \cup [http : {"ok"}, cm_initial : CmInitials(s), did_delete : BOOLEAN,
          raised : {{"ls"}}]
    \cup [http : {"ok"}, cm_initial : {NoRecord}, did_delete : {FALSE},
          raised : {{"ck"}, Tiers}]

Logout(s) ==
    \E i \in LogoutInputs(s) :
      LET ss == session_state[s]
          b == BrowserOf(s)
          http == i.http
          ops == clear_auth_storage_ops(i.raised)
      IN
      \* the button is on the monitor page, shown to an authenticated session
      /\ is_authenticated(ss)
      /\ Fits(pending[b], ops)
      /\ session_state' = [session_state EXCEPT ![s] = logout(ss, http)]
      /\ pending' = [pending EXCEPT ![b] = Schedule(pending[b], ops)]
      /\ cookie_manager' =
            IF "ck" \in i.raised THEN cookie_manager
            ELSE CookieManagerDelete(get_cookie_manager(cookie_manager, i.cm_initial),
                                     i.did_delete)
      /\ ev' = [NoEvent EXCEPT
                   !.op = "logout", !.s = s,
                   !.gw = IF LogoutNotifies(ss) THEN GwClass(http) ELSE "none",
                   !.req = IF LogoutNotifies(ss)
                           THEN logout_request(ss.refresh_token) ELSE NoRequest,
                   !.failed = i.raised]
      /\ restore_calls' = [restore_calls EXCEPT ![s] = 0]
      /\ UNCHANGED <<window, localStorage, cookie, now, rejected>>

(***************************************************************************)
(* refresh_access_token (from APIClient._request on a 401, and from        *)
(* ensure_valid_token).                                                    *)
(***************************************************************************)
\* (faulty variant: a refresh the Gateway refuses drops the access token)
refresh_access_token_DropsToken(ss, http) ==
    IF ss.refresh_token = None
    THEN [ss |-> ss, ret |-> FALSE, gw |-> "none", req |-> NoRequest]
    ELSE IF http = "ok"
    THEN [ss |-> [ss EXCEPT !.user_token = RefreshAccessToken(ss.refresh_token)],
          ret |-> TRUE, gw |-> "ok", req |-> refresh_request(ss.refresh_token)]
    ELSE [ss |-> [ss EXCEPT !.user_token = None], ret |-> FALSE,
          gw |-> GwClass(http), req |-> refresh_request(ss.refresh_token)]

\* Session state, return value, Gateway answer and request of
\* refresh_access_token when the Gateway answers http.
refresh_access_token(ss, http) ==
    IF ss.refresh_token = None
    THEN [ss |-> ss, ret |-> FALSE, gw |-> "none", req |-> NoRequest]
    ELSE IF http = "ok"
    THEN [ss |-> [ss EXCEPT !.user_token = RefreshAccessToken(ss.refresh_token)],
          ret |-> TRUE, gw |-> "ok", req |-> refresh_request(ss.refresh_token)]
    ELSE [ss |-> ss, ret |-> FALSE, gw |-> GwClass(http),
          req |-> refresh_request(ss.refresh_token)]

TokenRefresh(s) ==
    \E http \in HttpOutcomes :
      LET r == refresh_access_token(session_state[s], http) IN
      \* API calls are made from the monitor page, by an authenticated session
      /\ is_authenticated(session_state[s])
      /\ session_state' = [session_state EXCEPT ![s] = r.ss]
      /\ ev' = [NoEvent EXCEPT !.op = "refresh", !.s = s, !.gw = r.gw,
                                !.ret = r.ret, !.req = r.req]
      /\ UNCHANGED <<window, localStorage, cookie, pending, cookie_manager, now, rejected,
                   restore_calls>>

(***************************************************************************)
(* APIClient._request (every call the monitor page makes to the Gateway).  *)
(***************************************************************************)
\* The Gateway's answers to an API request: 200, 401, another status,
\* Timeout, ConnectionError.
ApiOutcomes == {"ok", "unauthorized", "server_error", "timeout", "connerr"}

\* What the caller of _request gets: the response, or the exception.
ApiResponse(http) == IF http \in {"timeout", "connerr"} THEN "raised" ELSE http

\* (faulty variant: the header is built whether or not there is a token)
get_headers_Always(ss) == "Bearer " \o ss.user_token

\* get_headers: the Authorization header "Bearer <user_token>" if there is
\* a user_token, no header (None) otherwise.
get_headers(ss) ==
    IF ss.user_token # None THEN "Bearer " \o ss.user_token ELSE None

\* (faulty variant: the 401 of the retry is answered with one more refresh)
APIClient_request_RefreshTwice(ss, retry_on_401, first, refresh, retry) ==
    LET h1 == get_headers(ss)
        r == refresh_access_token(ss, refresh)
    IN
    IF first \in {"timeout", "connerr"}
    THEN [ss |-> ss, gw |-> "none", req |-> NoRequest,
          api |-> [sends |-> <<h1>>, refreshes |-> 0, response |-> "raised"]]
    ELSE IF first = "unauthorized" /\ retry_on_401
    THEN IF r.ret
         THEN [ss |-> r.ss, gw |-> r.gw, req |-> r.req,
               api |-> [sends |-> <<h1, get_headers(r.ss)>>,
                        refreshes |-> IF retry = "unauthorized" THEN 2 ELSE 1,
                        response |-> ApiResponse(retry)]]
         ELSE [ss |-> r.ss, gw |-> r.gw, req |-> r.req,
               api |-> [sends |-> <<h1>>,
                        refreshes |-> IF r.req = NoRequest THEN 0 ELSE 1,
                        response |-> first]]
    ELSE [ss |-> ss, gw |-> "none", req |-> NoRequest,
          api |-> [sends |-> <<h1>>, refreshes |-> 0, response |-> first]]

\* _request: send; on a 401 with retry_on_401, refresh_access_token and, if
\* that returned True, send once more with the new headers; return the last
\* response.  first, refresh, retry: the Gateway's answers to the three calls.
APIClient_request(ss, retry_on_401, first, refresh, retry) ==
    LET h1 == get_headers(ss)
        r == refresh_access_token(ss, refresh)
    IN
    IF first \in {"timeout", "connerr"}
    THEN [ss |-> ss, gw |-> "none", req |-> NoRequest,
          api |-> [sends |-> <<h1>>, refreshes |-> 0, response |-> "raised"]]
    ELSE IF first = "unauthorized" /\ retry_on_401
    THEN IF r.ret
         THEN [ss |-> r.ss, gw |-> r.gw, req |-> r.req,
               api |-> [sends |-> <<h1, get_headers(r.ss)>>,
                        refreshes |-> 1,
                        response |-> ApiResponse(retry)]]
         ELSE [ss |-> r.ss, gw |-> r.gw, req |-> r.req,
               api |-> [sends |-> <<h1>>,
                        refreshes |-> IF r.req = NoRequest THEN 0 ELSE 1,
                        response |-> first]]
    ELSE [ss |-> ss, gw |-> "none", req |-> NoRequest,
          api |-> [sends |-> <<h1>>, refreshes |-> 0, response |-> first]]

\* The inputs of one _request call that its outcome depends on.
ApiInputs ==
    [retry_on_401 : {TRUE}, first : {"unauthorized"}, refresh : {"ok"},
     retry : ApiOutcomes]
    \cup [retry_on_401 : {TRUE}, first : {"unauthorized"},
          refresh : HttpOutcomes \ {"ok"}, retry : {"ok"}]
    \cup [retry_on_401 : {FALSE}, first : {"unauthorized"}, refresh : {"ok"},
          retry : {"ok"}]
    \cup [retry_on_401 : {TRUE}, first : ApiOutcomes \ {"unauthorized"},
          refresh : {"ok"}, retry : {"ok"}]

ApiRequest(s) ==
    \E i \in ApiInputs :
      LET r == APIClient_request(session_state[s], i.retry_on_401, i.first,
                                 i.refresh, i.retry)
      IN
      \* the pages that call the API are shown to an authenticated session
      /\ is_authenticated(session_state[s])
      /\ session_state' = [session_state EXCEPT ![s] = r.ss]
      /\ ev' = [NoEvent EXCEPT !.op = "api", !.s = s, !.gw = r.gw,
                                !.ret = i.retry_on_401, !.req = r.req,
                                !.api = r.api]
      /\ UNCHANGED <<window, localStorage, cookie, pending, cookie_manager, now, rejected,
                   restore_calls>>

(***************************************************************************)
(* Environment: a page load, and the browser running a scheduled op.       *)
(***************************************************************************)
\* A page load (reload, reconnect after suspension) gives the session a new
\* st.session_state, which init_session fills with the defaults.
PageLoad(s) ==
    /\ session_state[s] # SessionDefaults
    /\ session_state' = [session_state EXCEPT ![s] = SessionDefaults]
    /\ ev' = [NoEvent EXCEPT !.op = "pageload", !.s = s]
    /\ restore_calls' = [restore_calls EXCEPT ![s] = 0]
    /\ window' = [window EXCEPT ![BrowserOf(s)] = Reloaded(@)]
    /\ UNCHANGED <<localStorage, cookie, pending, cookie_manager, now, rejected>>

\* Something other than this program (the person at the browser, an
\* extension, a write cut short) leaves a truncated value in a tier.
StorageTruncated(b, t) ==
    /\ pending[b][t] = <<>>
    /\ (IF t = "ls" THEN localStorage[b] ELSE cookie[b]) # Truncated
    /\ localStorage' = IF t = "ls" THEN [localStorage EXCEPT ![b] = Truncated]
                       ELSE localStorage
    /\ cookie' = IF t = "ck" THEN [cookie EXCEPT ![b] = Truncated] ELSE cookie
    /\ ev' = [NoEvent EXCEPT !.op = "truncated"]
    /\ UNCHANGED <<window, session_state, pending, cookie_manager, now, rejected,
                 restore_calls>>

\* The ways a stored record v may be altered outside this program: another
\* refresh token put in, with the checksum left as it was or taken out.
AlteredRecords(v) ==
    {[v EXCEPT !.refresh_token = RefreshTokenOf("b")],
     [v EXCEPT !.refresh_token = RefreshTokenOf("b"), !.checksum = NoChecksum]}

\* Something other than this program alters the record a tier holds.
StorageAltered(b, t) ==
    LET v == IF t = "ls" THEN localStorage[b] ELSE cookie[b] IN
    /\ pending[b][t] = <<>>
    /\ v = AuthData(v.email, v.refresh_token)
    /\ v.email = "a" /\ v.refresh_token = RefreshTokenOf("a")
    /\ \E w \in AlteredRecords(v) :
         /\ localStorage' = IF t = "ls" THEN [localStorage EXCEPT ![b] = w]
                            ELSE localStorage
         /\ cookie' = IF t = "ck" THEN [cookie EXCEPT ![b] = w] ELSE cookie
    /\ ev' = [NoEvent EXCEPT !.op = "altered"]
    /\ UNCHANGED <<window, session_state, pending, cookie_manager, now, rejected,
                   restore_calls>>

\* More than COOKIE_EXPIRY_DAYS days pass at once.
Absence ==
    /\ now < MaxNow
    /\ now' = now + COOKIE_EXPIRY_DAYS + 1
    /\ ev' = [NoEvent EXCEPT !.op = "absence"]
    /\ UNCHANGED <<window, session_state, localStorage, cookie, pending, cookie_manager,
                   rejected, restore_calls>>

\* The browser runs the oldest operation scheduled for one tier.
BrowserExec(b, t) ==
    /\ pending[b][t] # <<>>
    /\ IF t = "ls"
       THEN /\ localStorage' = [localStorage EXCEPT ![b] = ApplyOp(Head(pending[b][t]))]
            /\ UNCHANGED cookie
       ELSE /\ cookie' = [cookie EXCEPT ![b] = ApplyOp(Head(pending[b][t]))]
            /\ UNCHANGED localStorage
    /\ pending' = [pending EXCEPT ![b][t] = Tail(pending[b][t])]
    /\ ev' = [NoEvent EXCEPT !.op = "browser"]
    /\ UNCHANGED <<window, session_state, cookie_manager, now, rejected,
                 restore_calls>>

\* A day passes.
Tick ==
    /\ now < MaxNow
    /\ now' = now + 1
    /\ ev' = [NoEvent EXCEPT !.op = "tick"]
    /\ UNCHANGED <<window, session_state, localStorage, cookie, pending, cookie_manager,
                   rejected, restore_calls>>

\* Two sessions, each with its own browser, served by one process.
Next ==
    \/ \E s \in Sessions : RenderPass(s)
    \/ \E s \in Sessions : Login(s, Accounts(s))
    \/ \E s \in Sessions : Logout(s)
    \/ \E s \in Sessions : PageLoad(s)
    \/ \E b \in Browsers, t \in Tiers : BrowserExec(b, t)

Spec == Init /\ [][Next]_vars

\* One browser on which two people sign in one after the other.
NextSwitch ==
    \/ RenderPass("s1")
    \/ Login("s1", Users)
    \/ Logout("s1")
    \/ PageLoad("s1")
    \/ \E t \in Tiers : BrowserExec("b1", t)
    \/ TokenRefresh("s1")

SpecSwitch == Init /\ [][NextSwitch]_vars

\* One browser; the person signing in has a plain email or one with a
\* double quote.
BridgeAccounts == {"a", EmailQuote}

NextBridge ==
    \/ RenderPass("s1")
    \/ Login("s1", BridgeAccounts)
    \/ Logout("s1")
    \/ PageLoad("s1")
    \/ \E t \in Tiers : BrowserExec("b1", t)
    \/ Tick

SpecBridge == Init /\ [][NextBridge]_vars

\* One browser, one person, and the API calls of the monitor page.
NextApi ==
    \/ RenderPass("s1")
    \/ Login("s1", {"a"})
    \/ Logout("s1")
    \/ PageLoad("s1")
    \/ \E t \in Tiers : BrowserExec("b1", t)
    \/ ApiRequest("s1")

SpecApi == Init /\ [][NextApi]_vars

\* One browser whose stored values may be cut short; the person signing in
\* has a plain email or one with a double quote.
NextRead ==
    \/ RenderPass("s1")
    \/ Login("s1", BridgeAccounts)
    \/ PageLoad("s1")
    \/ \E t \in Tiers : BrowserExec("b1", t)
    \/ \E t \in Tiers : StorageTruncated("b1", t)

SpecRead == Init /\ [][NextRead]_vars

\* One browser and one person; the stored record may be altered, and may
\* be left until it has expired.
NextTamper ==
    \/ RenderPass("s1")
    \/ Login("s1", {"a"})
    \/ PageLoad("s1")
    \/ \E t \in Tiers : BrowserExec("b1", t)
    \/ \E t \in Tiers : StorageAltered("b1", t)
    \/ Absence

SpecTamper == Init /\ [][NextTamper]_vars

(***************************************************************************)
(* The browser side of the visibility listener: the page running the       *)
(* script, the tab being hidden and shown again, and the script's timer.   *)
(* Times are not measured: how long the tab was hidden, and whether the    *)
(* timer (10 s after the script ran) has fired by then, are the browser's  *)
(* choice, since a hidden or suspended tab delays its timers.              *)
(***************************************************************************)
\* The page runs the script that inject_visibility_listener handed over in
\* this session.
ScriptRun(s) ==
    LET b == BrowserOf(s) IN
    /\ session_state[s].visibility_listener_injected
    /\ ScriptRuns(window[b]) # window[b]
    /\ window' = [window EXCEPT ![b] = ScriptRuns(@)]
    /\ ev' = [NoEvent EXCEPT !.op = "script", !.s = s]
    /\ UNCHANGED <<session_state, localStorage, cookie, pending, cookie_manager,
                   now, rejected, restore_calls>>

\* The tab is hidden; the listener records the time.
Hide(s) ==
    LET b == BrowserOf(s) IN
    /\ window[b].listener
    /\ ~window[b].hidden
    /\ window' = [window EXCEPT ![b].hidden = TRUE]
    /\ ev' = [NoEvent EXCEPT !.op = "hidden", !.s = s]
    /\ UNCHANGED <<session_state, localStorage, cookie, pending, cookie_manager,
                   now, rejected, restore_calls>>

\* The tab is shown again and the listener runs; a reload it asks for gives
\* the session a new st.session_state, as any page load does.
Visible(s) ==
    \E long \in BOOLEAN :
      LET b == BrowserOf(s)
          r == VisibilityChange(window[b], long)
      IN
      /\ window[b].listener
      /\ window[b].hidden
      /\ window' = [window EXCEPT
                       ![b] = IF r.reload THEN Reloaded(r.w) ELSE r.w]
      /\ session_state' = IF r.reload
                          THEN [session_state EXCEPT ![s] = SessionDefaults]
                          ELSE session_state
      /\ restore_calls' = IF r.reload
                          THEN [restore_calls EXCEPT ![s] = 0]
                          ELSE restore_calls
      /\ ev' = [NoEvent EXCEPT
                   !.op = IF long THEN "visible_long" ELSE "visible_short",
                   !.s = s, !.ret = r.reload]
      /\ UNCHANGED <<localStorage, cookie, pending, cookie_manager, now,
                     rejected>>

\* The script's timer fires.
ResetTimer(s) ==
    LET b == BrowserOf(s) IN
    /\ window[b].timer
    /\ window' = [window EXCEPT ![b] = resetReloadCount(@)]
    /\ ev' = [NoEvent EXCEPT !.op = "timer", !.s = s]
    /\ UNCHANGED <<session_state, localStorage, cookie, pending, cookie_manager,
                   now, rejected, restore_calls>>

\* One browser and one person, who hides the tab and comes back to it.
NextReload ==
    \/ RenderPass("s1")
    \/ Login("s1", {"a"})
    \/ Logout("s1")
    \/ PageLoad("s1")
    \/ \E t \in Tiers : BrowserExec("b1", t)
    \/ ScriptRun("s1")
    \/ Hide("s1")
    \/ Visible("s1")
    \/ ResetTimer("s1")

SpecReload == Init /\ [][NextReload]_vars


(***************************************************************************)
(* Properties.                                                             *)
(***************************************************************************)
\* The step just taken was a render pass of session s.
PassOf(s) == ev'.op = "pass" /\ ev'.s = s

\* The credential a settled READ of browser b yields: localStorage first,
\* then the cookie.
BrowserCredential(b) ==
    IF ValidateAuthData(localStorage[b]) # NoRecord
    THEN ValidateAuthData(localStorage[b])
    ELSE ValidateAuthData(cookie[b])

\* Tier t of browser b is empty once the operations scheduled for it have
\* run.
TierSettlesEmpty(b, t) ==
    IF pending[b][t] # <<>>
    THEN pending[b][t][Len(pending[b][t])].kind = "remove"
    ELSE (IF t = "ls" THEN localStorage[b] ELSE cookie[b]) = NoRecord

\* C1 (consistency guard): when a render pass starts with an Access Token
\* in memory paired with credential A while the browser's storage holds a
\* credential B # A, the pass ends with no Access Token in memory.
C1_GuardDiscardsStaleToken ==
    [][\A s \in Sessions :
         ( /\ PassOf(s)
           /\ is_authenticated(session_state[s])
           /\ BrowserCredential(BrowserOf(s)) # NoRecord
           /\ BrowserCredential(BrowserOf(s)).refresh_token
                 # session_state[s].refresh_token )
         => ~is_authenticated(session_state'[s])]_vars

\* C2 (cross-session isolation): a session is never authenticated as a user
\* whose credentials were never used at its own browser.
C2_SessionIsolation ==
    \A s \in Sessions :
        is_authenticated(session_state[s])
        => session_state[s].user_email \in Accounts(s)

\* C3 (bounded retries): a render pass of an unauthenticated session whose
\* storage read yields nothing ends with the restoration finished and no
\* Access Token (so ANONYMOUS is reached in one pass, within the three
\* allowed); and a pass that starts unauthenticated with the restoration
\* finished reads no storage, calls no Gateway, schedules nothing and
\* leaves the session state as it was.
C3_BoundedRetries ==
    [][\A s \in Sessions :
         /\ ( PassOf(s) /\ ~is_authenticated(session_state[s])
                        /\ ev'.read = NoRecord )
            => ( /\ session_state'[s].cookie_restore_done
                 /\ ~is_authenticated(session_state'[s])
                 /\ ev'.gw = "none" )
         /\ ( PassOf(s) /\ ~is_authenticated(session_state[s])
                        /\ session_state[s].cookie_restore_done )
            => ( /\ ev'.reads = 0
                 /\ ev'.gw = "none"
                 /\ session_state'[s] = session_state[s]
                 /\ cookie_manager' = cookie_manager
                 /\ pending' = pending )]_vars

\* A later pass of a session that reached ANONYMOUS: nothing read.
C3_Witness ==
    /\ ev.op = "pass"
    /\ ev.reads = 0
    /\ ~is_authenticated(session_state[ev.s])
    /\ session_state[ev.s].cookie_restore_done
    /\ session_state[ev.s].cookie_restore_attempts = 1

\* C4 (login page reachable): a render pass of a session that is
\* unauthenticated and whose restoration had already finished shows the
\* login page.
C4_LoginPageShown ==
    [][\A s \in Sessions :
         ( PassOf(s) /\ ~is_authenticated(session_state[s])
                     /\ session_state[s].cookie_restore_done )
         => ev'.page = "auth_page"]_vars

\* C5 (asynchrony tolerance): the first render pass after a page load whose
\* storage reads come back empty does not finish the restoration.
C5_FirstEmptyReadTolerated ==
    [][\A s \in Sessions :
         ( /\ PassOf(s)
           /\ ~is_authenticated(session_state[s])
           /\ ~session_state[s].cookie_restore_done
           /\ session_state[s].cookie_restore_attempts = 0
           /\ ev'.reads > 0
           /\ ev'.read = NoRecord )
         => ~session_state'[s].cookie_restore_done]_vars

\* C6 (successful restoration): after a pass in which the stored credential
\* was read and the Gateway accepted it, the session is authenticated with
\* the Access Token the Gateway minted for that refresh token, holds that
\* refresh token and the email stored with it (the email of the login that
\* stored it), has the user id and username login() leaves (none), and the
\* restoration is marked done.
C6_RestoreSuccess ==
    (ev.op = "pass" /\ ev.gw = "ok")
    => LET ss == session_state[ev.s] IN
       /\ ev.read # NoRecord
       /\ ev.ret
       /\ is_authenticated(ss)
       /\ ss.user_token = RefreshAccessToken(ev.read.refresh_token)
       /\ ss.refresh_token = ev.read.refresh_token
       /\ ss.user_email = ev.read.email
       /\ ss.user_email = OwnerOf(ss.refresh_token)
       /\ ss.user_id = None /\ ss.username = None
       /\ ss.remember_me
       /\ ss.cookie_restore_done

\* The second user's session restored from the cookie tier.
C6_Witness ==
    /\ ev.op = "pass" /\ ev.gw = "ok" /\ ev.reads = 2
    /\ session_state[ev.s].user_email = "b"

\* C7 (rejection clears everything): after a pass in which the Gateway
\* rejected the stored credential, the session is ANONYMOUS and every
\* storage tier of its browser is empty, or will be once the operations
\* scheduled for it have run.
C7_RejectionClearsAllTiers ==
    (ev.op = "pass" /\ ev.gw = "rejected")
    => /\ ~is_authenticated(session_state[ev.s])
       /\ session_state[ev.s].cookie_restore_done
       /\ \A t \in Tiers : TierSettlesEmpty(BrowserOf(ev.s), t)

\* C8 (no retry of a rejected credential): no render pass presents to the
\* Gateway a credential read from localStorage that the Gateway has
\* rejected and no login has stored again since.
C8_RejectedNeverRetried ==
    [][\A s \in Sessions :
         ( PassOf(s) /\ ev'.gw # "none" /\ ev'.reads = 1 )
         => ev'.read.refresh_token \notin rejected]_vars

\* The restoration of a fresh page load of session s that finds the Gateway
\* reachable restores the session from the credential the last pass read.
C9_StoredCredentialKept(s) ==
    \E js_result \in {NoRecord, localStorage[BrowserOf(s)]} :
       LET r == try_restore_session(SessionDefaults, cookie_manager, js_result,
                                    NoRecord, "ok", FALSE, FALSE)
       IN /\ r.ret
          /\ r.read = ev.read
          /\ is_authenticated(r.ss)
          /\ r.ss.user_email = ev.read.email

\* C9 (transient failure is non-destructive): a pass whose Gateway call
\* times out or cannot connect changes no storage tier, schedules no
\* storage operation and sets no Access Token; afterwards the credential is
\* still there, and the restoration of a fresh page load that finds the
\* Gateway reachable restores the session from it.
C9_TransientFailureKeepsStorage ==
    /\ [][\A s \in Sessions :
            ( PassOf(s) /\ ev'.gw = "unreachable" )
            => /\ localStorage' = localStorage
               /\ cookie' = cookie
               /\ pending' = pending
               /\ ~is_authenticated(session_state'[s])
               /\ ev'.read # NoRecord]_vars
    /\ []( (ev.op = "pass" /\ ev.gw = "unreachable")
           => C9_StoredCredentialKept(ev.s) )

\* A pass that read the credential from localStorage and could not reach
\* the Gateway.
C9_Witness ==
    /\ ev.op = "pass" /\ ev.gw = "unreachable" /\ ev.reads = 1
    /\ localStorage[BrowserOf(ev.s)] = ev.read

\* Every session field that logout() resets holds its empty value.
C10_SessionFieldsEmpty(ss) ==
    /\ ss.user_token = None
    /\ ss.refresh_token = None
    /\ ss.user_email = None
    /\ ss.user_id = None
    /\ ss.username = None
    /\ ss.remember_me = FALSE

\* C10 (logout tears down local state): after logout(), whatever the
\* Gateway answered, every session field is empty and a removal is the last
\* operation scheduled for each storage tier of the session's browser whose
\* removal did not raise; and
\* logout() empties the fields of any session state, with or without a
\* refresh token.
C10_LogoutTearsDown ==
    /\ (ev.op = "logout")
       => /\ C10_SessionFieldsEmpty(session_state[ev.s])
          /\ \A t \in Tiers \ ev.failed :
                LET q == pending[BrowserOf(ev.s)][t] IN
                q # <<>> /\ q[Len(q)].kind = "remove"
    /\ \A http \in HttpOutcomes, tok \in {None, "at_login_a"},
          rt \in {None, "rt_a"} :
          C10_SessionFieldsEmpty(
             logout([SessionDefaults EXCEPT !.user_token = tok,
                                            !.refresh_token = rt,
                                            !.user_email = "a",
                                            !.remember_me = TRUE], http))

\* A logout whose notification of the Gateway failed.
C10_Witness ==
    /\ ev.op = "logout" /\ ev.gw = "unreachable"
    /\ ~is_authenticated(session_state[ev.s])

\* C11 (logout is stable): the render pass that follows the logout of a
\* session (the rerun logout() triggers), here after a logout whose
\* notification did not reach the Gateway, leaves the session without an
\* Access Token.
C11_LogoutStable ==
    [][\A s \in Sessions :
         ( /\ PassOf(s)
           /\ ev.op = "logout" /\ ev.s = s /\ ev.gw = "unreachable" )
         => ~is_authenticated(session_state'[s])]_vars

\* What tier t of browser b holds once the operations scheduled for it have
\* run.
SettledTier(b, t) ==
    IF pending[b][t] # <<>>
    THEN ApplyOp(pending[b][t][Len(pending[b][t])])
    ELSE IF t = "ls" THEN localStorage[b] ELSE cookie[b]

\* C12 (clear is terminal): after logout() called clear_auth_storage, and
\* once the browser has run what was scheduled, the READ of the next
\* restoration (localStorage, else the cookie) returns no record.
C12_ClearIsTerminal ==
    (ev.op = "logout")
    => \A js_result \in {NoRecord, SettledTier(BrowserOf(ev.s), "ls")} :
          try_restore_session(session_state[ev.s], cookie_manager, js_result,
                              NoRecord, "ok", FALSE, FALSE).read = NoRecord

\* Browser b holds no record in any tier, none is scheduled to be written,
\* and the CookieManager's copy holds none.
BrowserHoldsNothing(b) ==
    /\ localStorage[b] = NoRecord
    /\ cookie[b] = NoRecord
    /\ \A t \in Tiers : \A i \in 1..Len(pending[b][t]) : pending[b][t][i].kind # "set"
    /\ cookie_manager.cookies = NoRecord

\* The restoration of a fresh page load of session s (new st.session_state,
\* same server process) ends without an Access Token, whatever the reads
\* and the Gateway answer.
RestoreEndsAnonymous(s) ==
    \A js_result \in {NoRecord, localStorage[BrowserOf(s)],
                      SettledTier(BrowserOf(s), "ls")},
       cm_initial \in {NoRecord, cookie[BrowserOf(s)],
                       SettledTier(BrowserOf(s), "ck")},
       http \in HttpOutcomes :
       LET r == try_restore_session(SessionDefaults, cookie_manager, js_result,
                                    cm_initial, http, FALSE, FALSE)
       IN ~is_authenticated(r.ss) /\ r.ss.cookie_restore_done

\* A successful login of session s without remember_me has just run.
LoginWithoutRememberOf(s) ==
    /\ ev'.op = "login" /\ ev'.s = s /\ ev'.ret
    /\ ~session_state'[s].remember_me

C14_BrowserValueWins ==
    [][\A s \in Sessions :
         ( /\ PassOf(s)
           /\ is_authenticated(session_state[s])
           /\ BrowserCredential(BrowserOf(s)) # NoRecord
           /\ BrowserCredential(BrowserOf(s)).refresh_token
                 # session_state[s].refresh_token )
         => /\ session_state'[s].refresh_token # session_state[s].refresh_token
            /\ UNCHANGED <<localStorage, cookie, pending>>
            /\ ev'.gw # "none"
               => ev'.read = BrowserCredential(BrowserOf(s))]_vars

\* The READ of a restoration once the browser has run what was scheduled
\* and the localStorage read has answered: localStorage, else the cookie.
SettledRead(s) ==
    try_restore_session(SessionDefaults, cookie_manager,
                        SettledTier(BrowserOf(s), "ls"),
                        SettledTier(BrowserOf(s), "ck"), "ok", FALSE,
                        FALSE).read

\* C15 (round trip): after a login wrote a credential with save_auth_dual,
\* and once the browser has run the write, the READ returns the email and
\* the refresh token that were written.
C15_RoundTrip ==
    (ev.op = "login" /\ ev.ret /\ session_state[ev.s].remember_me)
    => /\ SettledRead(ev.s).email = session_state[ev.s].user_email
       /\ SettledRead(ev.s).refresh_token = session_state[ev.s].refresh_token

\* A login of session s that wrote its credential with save_auth_dual has
\* just run, at a browser whose tiers already held (once the browser has
\* run what was scheduled) what an earlier write of the same credential
\* leaves.
SecondWriteOf(s) ==
    /\ ev'.op = "login" /\ ev'.s = s /\ ev'.ret
    /\ session_state'[s].remember_me
    /\ SettledTier(BrowserOf(s), "ck").email = session_state'[s].user_email
    /\ SettledTier(BrowserOf(s), "ck").refresh_token
          = session_state'[s].refresh_token
    /\ SettledTier(BrowserOf(s), "ls")
          = LocalStorageValue(SettledTier(BrowserOf(s), "ck"))

GatewayPaths == {"/auth/login", "/auth/refresh", "/auth/logout"}

C18_AnonymousVisitNoGatewayCall ==
    [][\A s \in Sessions :
         ( /\ PassOf(s)
           /\ session_state[s] = SessionDefaults
           /\ localStorage[BrowserOf(s)] = NoRecord
           /\ cookie[BrowserOf(s)] = NoRecord
           /\ pending[BrowserOf(s)] = NoOps )
         => /\ ev'.gw = "none"
            /\ ~is_authenticated(session_state'[s])
            /\ session_state'[s].cookie_restore_done]_vars

\* C19 (fast path): a render pass that starts with an Access Token in memory
\* reports the session authenticated (returns True, shows the monitor page)
\* with the same token, reads no storage, calls no Gateway and sends no
\* request.
C19_FastPath ==
    [][\A s \in Sessions :
         ( PassOf(s) /\ is_authenticated(session_state[s]) )
         => /\ ev'.ret
            /\ ev'.reads = 0
            /\ ev'.gw = "none"
            /\ ev'.req = NoRequest
            /\ ev'.page = "monitor"
            /\ session_state'[s].user_token = session_state[s].user_token
            /\ session_state'[s].refresh_token = session_state[s].refresh_token
            /\ session_state'[s].cookie_restore_done
            /\ UNCHANGED <<localStorage, cookie, pending, cookie_manager>>]_vars

\* A steady-state pass of a session that a login authenticated.
C19_Witness ==
    /\ ev.op = "pass" /\ ev.ret /\ ev.reads = 0 /\ ev.gw = "none"
    /\ session_state[ev.s].user_token = LoginAccessToken("a")
    /\ session_state[ev.s].visibility_listener_injected

\* C20 (read-before-decide): a render pass that starts with an Access
\* Token in memory, like every pass, reads the browser's storage before it
\* decides that the session is authenticated.
C20_ReadBeforeDecide ==
    [][\A s \in Sessions :
         ( PassOf(s) /\ is_authenticated(session_state[s]) )
         => ev'.reads > 0]_vars


(***************************************************************************)
(* C21: a login the Gateway accepts stores the access token, the refresh   *)
(* token, the typed email and the remember flag in the session, marks      *)
(* restoration done, schedules the write of both tiers exactly when        *)
(* remember_me was ticked, and returns success.                            *)
(***************************************************************************)
C21_LoginSuccess ==
    [][\A s \in Sessions :
        (ev'.op = "login" /\ ev'.s = s /\ ev'.gw = "ok") =>
          LET ss == session_state'[s]
              b == BrowserOf(s)
              email == ss.user_email
          IN /\ ss.user_token = LoginAccessToken(email)
             /\ ss.refresh_token = RefreshTokenOf(email)
             /\ email \in Emails
             /\ ss.cookie_restore_done
             /\ ev'.ret /\ ev'.msg = MsgLoginOk
             /\ pending'[b] =
                  IF ss.remember_me
                  THEN Schedule(pending[b],
                                save_auth_dual_ops(email, RefreshTokenOf(email)))
                  ELSE pending[b]]_vars

\* An accepted login with remember_me ticked has just scheduled the write.
C21_Witness ==
    /\ ev.op = "login" /\ ev.ret
    /\ session_state[ev.s].remember_me
    /\ is_authenticated(session_state[ev.s])
    /\ \E t \in Tiers : pending[BrowserOf(ev.s)][t] # <<>>


(***************************************************************************)
(* C22: a login the Gateway refuses returns failure with the detail text   *)
(* the Gateway sent; a login that times out or cannot connect returns      *)
(* failure with a connectivity message that is none of the messages of a   *)
(* refusal; in every failure case the session fields, the scheduled        *)
(* browser operations, the CookieManager and both tiers are unchanged.     *)
(***************************************************************************)
C22_RefusalMessages == {ServerDetail, MsgLoginFailed, MsgLoginError}

C22_LoginFailure ==
    [][(ev'.op = "login" /\ ev'.gw # "ok") =>
         /\ ~ev'.ret
         /\ ev'.gw \in {"rejected", "server_error"} =>
              /\ ev'.msg \in C22_RefusalMessages
              /\ ev'.body = "detail" => ev'.msg = ServerDetail
         /\ ev'.gw = "unreachable" =>
              /\ ev'.msg \in {MsgTimeout, MsgConnErr}
              /\ ev'.msg \notin C22_RefusalMessages
         /\ UNCHANGED <<session_state, pending, cookie_manager,
                        localStorage, cookie>>]_vars

\* A login timed out in a browser that holds a credential in both tiers.
C22_Witness ==
    /\ ev.op = "login" /\ ev.msg = MsgTimeout
    /\ localStorage[BrowserOf(ev.s)] # NoRecord
    /\ cookie[BrowserOf(ev.s)] # NoRecord

\* A refused login returned the Gateway's detail text.
C22_WitnessRefused ==
    ev.op = "login" /\ ev.gw = "rejected" /\ ev.msg = ServerDetail


(***************************************************************************)
(* C23: when an API call of an authenticated session is answered 401 and   *)
(* the Gateway also rejects the token refresh, the session is no longer    *)
(* authenticated afterwards: the stale access token is gone from the       *)
(* session state.                                                          *)
(***************************************************************************)
C23_RejectionSignsOut ==
    [][\A s \in Sessions :
        (/\ ev'.op = "api" /\ ev'.s = s
         /\ ev'.api.response = "unauthorized"
         /\ ev'.gw = "rejected")
        => ~is_authenticated(session_state'[s])]_vars


(***************************************************************************)
(* C24: a restoration pass whose localStorage read fails still reads the   *)
(* cookie, and uses the record the cookie read gives; a pass in which      *)
(* both reads fail returns False without raising, makes no Gateway call,   *)
(* schedules nothing and leaves the session unauthenticated with           *)
(* restoration done.                                                       *)
(***************************************************************************)
C24_StorageFailureDegrades ==
    [][\A s \in Sessions :
        (ev'.op = "pass" /\ ev'.s = s) =>
          /\ "ls" \in ev'.failed =>
               /\ ev'.reads = 2
               /\ (cookie_manager.made /\ "ck" \notin ev'.failed) =>
                    ev'.read = load_auth_cookie(cookie_manager, FALSE)
          /\ ev'.failed = Tiers =>
               /\ ~ev'.ret /\ ev'.gw = "none" /\ ev'.req = NoRequest
               /\ ~is_authenticated(session_state'[s])
               /\ session_state'[s].cookie_restore_done
               /\ pending' = pending]_vars

\* Both reads of a pass failed while the browser held a credential.
C24_Witness ==
    /\ ev.op = "pass" /\ ev.failed = Tiers
    /\ localStorage[BrowserOf(ev.s)] # NoRecord
    /\ cookie[BrowserOf(ev.s)] # NoRecord

\* The localStorage read failed and the session was restored from the cookie.
C24_WitnessCookieUsed ==
    ev.op = "pass" /\ ev.failed = {"ls"} /\ ev.ret /\ ev.read # NoRecord


(***************************************************************************)
(* C25: in clear_auth_storage (called by logout) the removal of each tier  *)
(* is attempted whether or not the other tier's removal raised: every      *)
(* tier whose removal did not raise gets its removal scheduled, a tier     *)
(* whose removal raised gets nothing, and for every combination the call   *)
(* returns, so that logout goes on to empty the session fields.            *)
(***************************************************************************)
C25_ClearPerTierGuarded ==
    [][\A s \in Sessions :
        (ev'.op = "logout" /\ ev'.s = s) =>
          LET b == BrowserOf(s) IN
          /\ \A t \in Tiers :
               pending'[b][t] =
                 IF t \in ev'.failed THEN pending[b][t]
                 ELSE pending[b][t] \o << Op("remove", NoRecord) >>
          /\ C10_SessionFieldsEmpty(session_state'[s])]_vars

\* The localStorage removal of a logout raised and the cookie removal was
\* scheduled all the same.
C25_Witness ==
    /\ ev.op = "logout" /\ ev.failed = {"ls"}
    /\ pending[BrowserOf(ev.s)]["ls"] = <<>>
    /\ pending[BrowserOf(ev.s)]["ck"] # <<>>

\* Both removals of a logout raised.
C25_WitnessBoth ==
    ev.op = "logout" /\ ev.failed = Tiers /\ ~is_authenticated(session_state[ev.s])


\* Whether a value a read returned has at least 20 characters: a record
\* save_auth_dual wrote has (also one whose email reads back garbled), a
\* missing value and a truncated one have not.
C26_AtLeast20Chars(v) == v \notin {NoRecord, JsRaised, Truncated}

C26_WitnessCookie ==
    /\ ev.op = "pass" /\ ev.reads = 2 /\ ev.read = NoRecord
    /\ cookie_manager.cookies = Truncated


\* The session fields C27 names: the tokens, the email, the restore flags.
C27_Fields(ss) ==
    <<ss.user_token, ss.refresh_token, ss.user_email,
      ss.cookie_restore_attempts, ss.cookie_restore_done>>

(***************************************************************************)
(* C27: the tokens, the email and the restore flags of a session change    *)
(* only in try_restore_session (a render pass), login and logout (a page   *)
(* load starts from a new session state); no browser-side storage          *)
(* operation and no other call to the Gateway changes them.                *)
(***************************************************************************)
C27_OnlyStateMachineWrites ==
    [][\A s \in Sessions :
        C27_Fields(session_state'[s]) # C27_Fields(session_state[s])
        => ev'.op \in {"pass", "login", "logout", "pageload"}]_vars


(***************************************************************************)
(* C28: between one page load or logout of a session and the next,         *)
(* try_restore_session makes at most 3 calls to the Gateway, whatever the  *)
(* passes and the Gateway's answers are, and cookie_restore_attempts       *)
(* never goes above 3 (MAX_RESTORE_ATTEMPTS, plus the increment that       *)
(* precedes the comparison).                                               *)
(***************************************************************************)
C28_RestorationCapped ==
    \A s \in Sessions :
      /\ restore_calls[s] <= MAX_RESTORE_ATTEMPTS + 1
      /\ session_state[s].cookie_restore_attempts <= MAX_RESTORE_ATTEMPTS + 1

\* A pass of a session whose restoration already called the Gateway, in
\* vain, has made no further call.
C28_Witness ==
    /\ ev.op = "pass" /\ ev.gw = "none"
    /\ restore_calls[ev.s] = 1
    /\ ~is_authenticated(session_state[ev.s])


(***************************************************************************)
(* C29: one APIClient._request call refreshes the token at most once and   *)
(* sends the request at most twice; it sends twice only after a 401 with   *)
(* retry_on_401 set and a refresh that succeeded; the second send carries  *)
(* the access token the refresh returned; whatever the second send gets,   *)
(* a 401 included, is returned without another refresh.                    *)
(***************************************************************************)
C29_ApiRetryBounded ==
    [][\A s \in Sessions :
        (ev'.op = "api" /\ ev'.s = s) =>
          LET api == ev'.api IN
          /\ api.refreshes <= 1
          /\ Len(api.sends) \in {1, 2}
          /\ api.sends[1] = get_headers(session_state[s])
          /\ Len(api.sends) = 2 =>
               /\ ev'.ret
               /\ api.refreshes = 1 /\ ev'.gw = "ok"
               /\ api.sends[2] =
                    "Bearer " \o RefreshAccessToken(session_state[s].refresh_token)
               /\ api.sends[2] = get_headers(session_state'[s])
          /\ (~ev'.ret \/ ev'.gw # "ok") => Len(api.sends) = 1]_vars

\* The retry of an API call was answered 401 again, and that is what the
\* call returned.
C29_Witness ==
    /\ ev.op = "api" /\ Len(ev.api.sends) = 2
    /\ ev.api.response = "unauthorized" /\ ev.api.refreshes = 1


(***************************************************************************)
(* C30: refresh_access_token, when the Gateway answers 200, replaces       *)
(* user_token by the token of the answer, changes no other session field   *)
(* and returns True; on any other answer, a timeout or a connection error  *)
(* it returns False and changes no session field; with no refresh token    *)
(* in memory it returns False without a call to the Gateway; and it never  *)
(* touches browser storage.                                                *)
(***************************************************************************)
C30_RefreshFrame ==
    [][\A s \in Sessions :
        (ev'.op = "refresh" /\ ev'.s = s) =>
          LET old == session_state[s]
              new == session_state'[s]
              bare == [old EXCEPT !.refresh_token = None]
          IN
          /\ ev'.gw # "none" /\ ev'.req = refresh_request(old.refresh_token)
          /\ ev'.gw = "ok" =>
               /\ ev'.ret
               /\ new = [old EXCEPT
                           !.user_token = RefreshAccessToken(old.refresh_token)]
          /\ ev'.gw # "ok" => (~ev'.ret /\ new = old)
          /\ \A http \in HttpOutcomes :
               refresh_access_token(bare, http) =
                 [ss |-> bare, ret |-> FALSE, gw |-> "none", req |-> NoRequest]
          /\ UNCHANGED <<localStorage, cookie, pending, cookie_manager>>]_vars

\* A refresh the Gateway refused has left the session as it was.
C30_Witness ==
    /\ ev.op = "refresh" /\ ev.gw = "rejected" /\ ~ev.ret
    /\ is_authenticated(session_state[ev.s])

\* A refresh the Gateway accepted has replaced the access token.
C30_WitnessAccepted ==
    /\ ev.op = "refresh" /\ ev.ret
    /\ session_state[ev.s].user_token =
         RefreshAccessToken(session_state[ev.s].refresh_token)


C32_BearerTokenLifetime ==
    [][\A s \in Sessions :
        /\ (ev'.op = "api" /\ ev'.s = s) =>
             LET sends == ev'.api.sends IN
             /\ sends[1] = "Bearer " \o session_state[s].user_token
             /\ session_state[s].user_token # None
             /\ Len(sends) = 2 =>
                  /\ sends[2] = "Bearer " \o session_state'[s].user_token
                  /\ session_state'[s].user_token # None
        /\ (ev'.op = "logout" /\ ev'.s = s) =>
             /\ session_state'[s].user_token = None
             /\ get_headers(session_state'[s]) = None
             /\ ev'.req.body # session_state[s].user_token
        /\ ~is_authenticated(session_state'[s]) =>
             get_headers(session_state'[s]) = None]_vars

\* A logout has left the session without an access token, so without a
\* header, and has scheduled the removal of the stored credential.
C32_Witness ==
    /\ ev.op = "logout"
    /\ get_headers(session_state[ev.s]) = None
    /\ restore_calls[ev.s] = 0
    /\ \E t \in Tiers : pending[BrowserOf(ev.s)][t] # <<>>

\* The retry of an API call carried the refreshed access token.
C32_WitnessRetry ==
    /\ ev.op = "api" /\ Len(ev.api.sends) = 2
    /\ ev.api.sends[2] = "Bearer " \o session_state[ev.s].user_token
    /\ ev.api.sends[2] # ev.api.sends[1]


(***************************************************************************)
(* C33: a restoration pass whose exchange the Gateway answers with a 5xx   *)
(* status ends unauthenticated with restoration done (so no further call   *)
(* follows) and schedules no removal for any storage tier of the browser.  *)
(***************************************************************************)
C33_ServerErrorKeepsStorage ==
    [][\A s \in Sessions :
        (PassOf(s) /\ ev'.gw = "server_error") =>
          /\ ~ev'.ret
          /\ ~is_authenticated(session_state'[s])
          /\ session_state'[s].cookie_restore_done
          /\ pending'[BrowserOf(s)] = pending[BrowserOf(s)]]_vars


(***************************************************************************)
(* C34: the reload loop is bounded.  A render pass hands the visibility    *)
(* script to the page only while the session's flag is unset, and the flag,*)
(* once set, stays set until logout or a page load ends the session; and   *)
(* the listener has never triggered more than MAX_RELOADS reloads since    *)
(* its reload count was last reset: at the cap, coming back to the tab     *)
(* reloads nothing.                                                        *)
(***************************************************************************)
C34_ScriptHandedOver(s) ==
    /\ PassOf(s)
    /\ is_authenticated(session_state'[s])
    /\ InjectsScript(session_state[s])

C34_ReloadLoopBounded ==
    [][\A s \in Sessions :
        LET b == BrowserOf(s) IN
        /\ window'[b].reloads <= MAX_RELOADS
        /\ window'[b].reloads = window'[b].reload_count
        /\ C34_ScriptHandedOver(s)
             => /\ ~session_state[s].visibility_listener_injected
                /\ session_state'[s].visibility_listener_injected
        /\ (/\ session_state[s].visibility_listener_injected
            /\ ~session_state'[s].visibility_listener_injected)
             => /\ ev'.s = s
                /\ ev'.op \in {"logout", "pageload", "visible_long"}
        /\ (/\ ev'.op \in {"visible_long", "visible_short"}
            /\ ev'.s = s
            /\ window[b].reload_count >= MAX_RELOADS)
             => /\ ~ev'.ret
                /\ session_state'[s] = session_state[s]]_vars

\* The tab was hidden for long and shown again with the cap reached: nothing
\* was reloaded and the session is still signed in.
C34_Witness ==
    /\ ev.op = "visible_long"
    /\ ~ev.ret
    /\ window["b1"].reloads = MAX_RELOADS
    /\ window["b1"].listener
    /\ is_authenticated(session_state["s1"])

\* The second reload in a row has just been triggered.
C34_WitnessReload ==
    /\ ev.op = "visible_long"
    /\ ev.ret
    /\ window["b1"].reloads = MAX_RELOADS
    /\ session_state["s1"] = SessionDefaults


(***************************************************************************)
(* C35: stored credentials follow the latest login.  Right after a         *)
(* successful login, each storage tier of the browser, once the browser    *)
(* has run what is scheduled for it, is empty or holds the record of the   *)
(* user who has just logged in; so a later page load restores nobody else. *)
(***************************************************************************)
C35_StorageFollowsLogin ==
    [][\A s \in Sessions :
        (ev'.op = "login" /\ ev'.s = s /\ ev'.ret) =>
          \A t \in Tiers :
            LET v == SettledTier(BrowserOf(s), t)' IN
            \/ v = NoRecord
            \/ /\ v.email = session_state'[s].user_email
               /\ v.refresh_token = session_state'[s].refresh_token]_vars


(***************************************************************************)
(* C36: the authenticated state is complete.  In every state the handlers  *)
(* leave (init_session, login, try_restore_session, refresh_access_token,  *)
(* logout), a session that holds an access token also holds a refresh      *)
(* token and an email; and after logout it holds none of the three.        *)
(***************************************************************************)
C36_AuthenticatedStateComplete ==
    /\ \A s \in Sessions :
          session_state[s].user_token # None
          => /\ session_state[s].refresh_token # None
             /\ session_state[s].user_email # None
    /\ ev.op \in {"logout", "pageload"}
       => /\ session_state[ev.s].user_token = None
          /\ session_state[ev.s].refresh_token = None
          /\ session_state[ev.s].user_email = None

\* A restoration has just put the three back into a new session state.
C36_Witness ==
    /\ ev.op = "pass" /\ ev.gw = "ok" /\ ev.ret
    /\ session_state[ev.s].user_token # None
    /\ session_state[ev.s].refresh_token = ev.read.refresh_token
    /\ session_state[ev.s].user_email = ev.read.email

\* A token refresh has just replaced the access token of user b.
C36_WitnessRefresh ==
    /\ ev.op = "refresh" /\ ev.ret
    /\ session_state[ev.s].user_token = RefreshAccessToken(RefreshTokenOf("b"))
    /\ session_state[ev.s].user_email = "b"


(***************************************************************************)
(* C37: restoration never runs over a live session.  After every render    *)
(* pass and every login, a session that holds an access token has          *)
(* cookie_restore_done set; the flag, once set, stays set until logout     *)
(* resets it (or a page load starts a new session state); and while it is  *)
(* set a render pass reads no storage tier and makes no Gateway call.      *)
(***************************************************************************)
C37_NoRestoreOverLiveSession ==
    [][\A s \in Sessions :
        /\ (ev'.s = s /\ ev'.op \in {"pass", "login"})
             => (is_authenticated(session_state'[s])
                   => session_state'[s].cookie_restore_done)
        /\ (/\ session_state[s].cookie_restore_done
            /\ ~session_state'[s].cookie_restore_done)
             => /\ ev'.s = s
                /\ ev'.op \in {"logout", "pageload", "visible_long"}
        /\ (PassOf(s) /\ session_state[s].cookie_restore_done)
             => /\ ev'.reads = 0
                /\ ev'.gw = "none"
                /\ ev'.req = NoRequest
                /\ restore_calls' = restore_calls
                /\ UNCHANGED <<localStorage, cookie, pending, cookie_manager>>]_vars

\* A pass of a session whose restoration had ended without a token has just
\* skipped the record that both tiers of the browser hold.
C37_Witness ==
    /\ ev.op = "pass" /\ ev.reads = 0 /\ ~ev.ret
    /\ session_state[ev.s].cookie_restore_done
    /\ ~is_authenticated(session_state[ev.s])
    /\ ValidateAuthData(localStorage[BrowserOf(ev.s)]) # NoRecord
    /\ ValidateAuthData(cookie[BrowserOf(ev.s)]) # NoRecord

\* A pass of a signed-in session has just returned at once.
C37_WitnessLive ==
    /\ ev.op = "pass" /\ ev.reads = 0 /\ ev.ret
    /\ session_state[ev.s].cookie_restore_done
    /\ ValidateAuthData(localStorage[BrowserOf(ev.s)]) # NoRecord


(***************************************************************************)
(* C38: the return value agrees with the state.  Whatever the session      *)
(* state, the storage and the Gateway gave, try_restore_session returns    *)
(* True exactly when the session holds an access token as it returns, and  *)
(* a call that returns False has left user_token, refresh_token and        *)
(* user_email as they were.                                                *)
(***************************************************************************)
C38_ReturnAgreesWithState ==
    [][\A s \in Sessions :
        PassOf(s) =>
          /\ ev'.ret <=> is_authenticated(session_state'[s])
          /\ ~ev'.ret
               => /\ session_state'[s].user_token = session_state[s].user_token
                  /\ session_state'[s].refresh_token
                        = session_state[s].refresh_token
                  /\ session_state'[s].user_email = session_state[s].user_email]_vars

\* The Gateway has just refused the stored record: False, and no field set.
C38_Witness ==
    /\ ev.op = "pass" /\ ev.gw = "rejected" /\ ~ev.ret
    /\ ev.read # NoRecord
    /\ session_state[ev.s].user_token = None
    /\ session_state[ev.s].refresh_token = None
    /\ session_state[ev.s].user_email = None

\* The Gateway has just accepted the stored record: True, and a token held.
C38_WitnessTrue ==
    /\ ev.op = "pass" /\ ev.gw = "ok" /\ ev.ret /\ ev.reads = 2
    /\ is_authenticated(session_state[ev.s])

=============================================================================
